---- MODULE Spec2Model ----
(***************************************************************************)
(* Image-to-Music web server (src/src/index.ts).                           *)
(*                                                                         *)
(* Strings are sequences of one-character strings, so that the path and    *)
(* name conversions of the server are computed character by character.     *)
(* The server's state is the three directories uploads/, outputs/ and      *)
(* texts/ together with the POST /api/generate requests in flight.         *)
(***************************************************************************)
EXTENDS Integers, Sequences, FiniteSets, TLC

\* ------------------------------------------------------------------ bounds
\* Longest filename handed to getBaseName in SpecBase.
MaxLen == 5
\* Largest modification time of a file in SpecMap and SpecMatch.
MaxMtime == 2
\* Number of POST /api/generate requests in Spec.
MaxReq == 2

\* ------------------------------------------------------- string utilities
Digits == {"0", "1", "2", "3", "4", "5", "6", "7", "8", "9"}

Range(s) == {s[i] : i \in 1..Len(s)}

\* String.prototype.lastIndexOf for a single character: 0-based, -1 if absent.
lastIndexOf(s, c) ==
  IF \E i \in 1..Len(s) : s[i] = c
  THEN (CHOOSE i \in 1..Len(s) : s[i] = c /\ \A j \in (i + 1)..Len(s) : s[j] # c) - 1
  ELSE -1

\* String.prototype.substring(from, to) with 0-based, end-exclusive indices.
substring(s, from, to) == SubSeq(s, from + 1, to)

\* String.prototype.startsWith.
startsWith(s, prefix) ==
  Len(prefix) <= Len(s) /\ SubSeq(s, 1, Len(prefix)) = prefix

LowerChar(c) ==
  CASE c = "J" -> "j" [] c = "P" -> "p" [] c = "G" -> "g"
    [] c = "W" -> "w" [] c = "A" -> "a" [] c = "V" -> "v"
    [] OTHER -> c

\* String.prototype.toLowerCase.
toLowerCase(s) == [i \in 1..Len(s) |-> LowerChar(s[i])]

IsSpace(c) == c = " "

\* String.prototype.trim: drops leading and trailing white space.
trim(s) ==
  IF \A i \in 1..Len(s) : IsSpace(s[i])
  THEN <<>>
  ELSE LET first == CHOOSE i \in 1..Len(s) :
                      ~IsSpace(s[i]) /\ \A j \in 1..(i - 1) : IsSpace(s[j])
           last == CHOOSE i \in 1..Len(s) :
                      ~IsSpace(s[i]) /\ \A j \in (i + 1)..Len(s) : IsSpace(s[j])
       IN SubSeq(s, first, last)

\* /^\d+$/.test(s)
IsNumeric(s) == Len(s) > 0 /\ \A i \in 1..Len(s) : s[i] \in Digits

\* ------------------------------------------------------------ path module
\* Filenames here never contain a path separator (readdir entries and
\* multipart originalname are single path components), so the base of a
\* path is the path itself.

\* 0-based index of the dot that starts the extension, or -1 when the name
\* has no extension: no dot, the only candidate dot is the first character
\* (a dotfile), or the name is exactly "..".
ExtDot(p) ==
  LET startDot == lastIndexOf(p, ".")
  IN IF startDot = -1 THEN -1
     ELSE IF startDot = 0 THEN -1
     ELSE IF p[1] = "." /\ startDot = Len(p) - 1 /\ startDot = 1 THEN -1
     ELSE startDot

\* path.extname(p)
extname(p) == IF ExtDot(p) = -1 THEN <<>> ELSE substring(p, ExtDot(p), Len(p))

\* path.parse(p).name
parseName(p) == IF ExtDot(p) = -1 THEN p ELSE substring(p, 0, ExtDot(p))

\* ------------------------------------------------------------ getBaseName
getBaseName_AnyDash(filename) ==
  LET nameWithoutExt == parseName(filename)
      lastDashIndex == lastIndexOf(nameWithoutExt, "-")
  IN IF lastDashIndex >= 0
        /\ IsNumeric(substring(nameWithoutExt, lastDashIndex + 1, Len(nameWithoutExt)))
     THEN substring(nameWithoutExt, 0, lastDashIndex)
     ELSE nameWithoutExt

getBaseName(filename) ==
  LET nameWithoutExt == parseName(filename)
      lastDashIndex == lastIndexOf(nameWithoutExt, "-")
  IN IF lastDashIndex > 0
        /\ IsNumeric(substring(nameWithoutExt, lastDashIndex + 1, Len(nameWithoutExt)))
     THEN substring(nameWithoutExt, 0, lastDashIndex)
     ELSE nameWithoutExt

\* ------------------------------------------------------------ directories
\* A directory is a function from filenames to file entries.  An entry that
\* does not exist is NoFile.  `by` is the request that wrote the file (0 for
\* a file that was not written by a request of this run).
NoFile == [exists |-> FALSE, mtime |-> 0, by |-> 0, content |-> <<>>]

File(mtime, by, content) ==
  [exists |-> TRUE, mtime |-> mtime, by |-> by, content |-> content]

Lookup(dir, name) == IF name \in DOMAIN dir THEN dir[name] ELSE NoFile

\* fs.existsSync(path.join(dirPath, file))
existsSync(dir, file) == Lookup(dir, file).exists

\* fs.existsSync(p) ? fs.statSync(p).mtimeMs : 0
mtimeOrZero(dir, file) == IF existsSync(dir, file) THEN Lookup(dir, file).mtime ELSE 0

\* The value of a JavaScript expression that is undefined.
Undefined == <<"(undefined)">>

\* Content of a file whose read throws.
Unreadable == <<"(EIO)">>

\* `${x}` in a template literal.
Template(x) ==
  IF x = Undefined THEN <<"u", "n", "d", "e", "f", "i", "n", "e", "d">> ELSE x

IMAGE_EXTENSIONS ==
  { <<".", "j", "p", "g">>, <<".", "j", "p", "e", "g">>, <<".", "p", "n", "g">>,
    <<".", "g", "i", "f">>, <<".", "w", "e", "b", "p">> }

AUDIO_EXTENSIONS == { <<".", "w", "a", "v">> }

UploadsUrl == <<"/", "u", "p", "l", "o", "a", "d", "s", "/">>

OutputsUrl == <<"/", "o", "u", "t", "p", "u", "t", "s", "/">>

WavExt == <<".", "w", "a", "v">>

TxtExt == <<".", "t", "x", "t">>

\* readTextFile: '' for a missing or unreadable file, else the trimmed text.
readTextFile(texts, file) ==
  IF ~existsSync(texts, file) THEN <<>>
  ELSE IF Lookup(texts, file).content = Unreadable THEN <<>>
  ELSE trim(Lookup(texts, file).content)

\* getFilesByExtension on the listing readdirSync returned (the directories
\* exist from start-up on, setupDirectories).
getFilesByExtension(listing, extensions) ==
  SelectSeq(listing, LAMBDA file : toLowerCase(extname(file)) \in extensions)

\* ------------------------------------------------------------ Map<string,string>
\* A Map is the sequence of its entries in insertion order.
MapHas(map, key) == \E i \in 1..Len(map) : map[i].key = key

MapGet(map, key) ==
  IF MapHas(map, key)
  THEN map[CHOOSE i \in 1..Len(map) : map[i].key = key].file
  ELSE Undefined

MapSet(map, key, file) ==
  IF MapHas(map, key)
  THEN [i \in 1..Len(map) |->
          IF map[i].key = key THEN [key |-> key, file |-> file] ELSE map[i]]
  ELSE Append(map, [key |-> key, file |-> file])

MapKeys(map) == [i \in 1..Len(map) |-> map[i].key]

\* ------------------------------------------------------------ createFileMap
IsNewer_Older(newMtime, existingMtime) == newMtime < existingMtime

\* if (newMtime > existingMtime)
IsNewer(newMtime, existingMtime) == newMtime > existingMtime

\* One iteration of files.forEach in createFileMap.
FileMapStep(map, file, baseName, dir) ==
  IF ~MapHas(map, baseName)
  THEN MapSet(map, baseName, file)
  ELSE LET existingFile == MapGet(map, baseName)
           existingMtime == mtimeOrZero(dir, existingFile)
           newMtime == mtimeOrZero(dir, file)
       IN IF IsNewer(newMtime, existingMtime)
          THEN MapSet(map, baseName, file)
          ELSE map

\* getBaseNameFn is the resolver as a function on the files of the list.
createFileMap(files, getBaseNameFn, dir) ==
  LET build[i \in 0..Len(files)] ==
        IF i = 0 THEN <<>>
        ELSE FileMapStep(build[i - 1], files[i], getBaseNameFn[files[i]], dir)
  IN build[Len(files)]

\* ------------------------------------------------------------ matchFiles
\* new Set([...imageMap.keys(), ...audioMap.keys()]) in insertion order.
UnionKeys(imageMap, audioMap) ==
  MapKeys(imageMap) \o
    SelectSeq(MapKeys(audioMap), LAMBDA k : ~MapHas(imageMap, k))

BothPresent_Either(imageFile, audioFile) ==
  (imageFile # Undefined /\ imageFile # <<>>) \/ (audioFile # Undefined /\ audioFile # <<>>)

\* if (imageFile && audioFile)
BothPresent(imageFile, audioFile) ==
  (imageFile # Undefined /\ imageFile # <<>>) /\ (audioFile # Undefined /\ audioFile # <<>>)

\* prompt || undefined
OrUndefined(prompt) == IF prompt = <<>> THEN Undefined ELSE prompt

\* a.imageUrl.split('/').pop() || ''
UrlFile(url) == substring(url, lastIndexOf(url, "/") + 1, Len(url))

CompareMtime_Ascending(mtimeA, mtimeB) == mtimeA - mtimeB

\* return mtimeB - mtimeA
CompareMtime(mtimeA, mtimeB) == mtimeB - mtimeA

\* The comparator handed to matchedFiles.sort.
SortCompare(a, b, uploads) ==
  CompareMtime(mtimeOrZero(uploads, UrlFile(a.imageUrl)),
               mtimeOrZero(uploads, UrlFile(b.imageUrl)))

\* Array.prototype.sort is stable: x goes in front of the first element the
\* comparator puts after it.
InsertSorted(sorted, x, uploads) ==
  LET after == {i \in 1..Len(sorted) : SortCompare(sorted[i], x, uploads) > 0}
      pos == IF after = {} THEN Len(sorted) + 1
             ELSE CHOOSE i \in after : \A j \in after : i <= j
  IN SubSeq(sorted, 1, pos - 1) \o <<x>> \o SubSeq(sorted, pos, Len(sorted))

sort(records, uploads) ==
  LET ins[i \in 0..Len(records)] ==
        IF i = 0 THEN <<>> ELSE InsertSorted(ins[i - 1], records[i], uploads)
  IN ins[Len(records)]

\* The records pushed by allBaseNames.forEach, before sorting.
MatchedBeforeSort(imageMap, audioMap, texts) ==
  LET allBaseNames == UnionKeys(imageMap, audioMap)
      push[i \in 0..Len(allBaseNames)] ==
        IF i = 0 THEN <<>>
        ELSE LET baseName == allBaseNames[i]
                 imageFile == MapGet(imageMap, baseName)
                 audioFile == MapGet(audioMap, baseName)
             IN IF BothPresent(imageFile, audioFile)
                THEN Append(push[i - 1],
                       [imageUrl |-> UploadsUrl \o Template(imageFile),
                        audioUrl |-> OutputsUrl \o Template(audioFile),
                        name |-> baseName,
                        prompt |-> OrUndefined(readTextFile(texts, baseName \o TxtExt))])
                ELSE push[i - 1]
  IN push[Len(allBaseNames)]

\* createFileMap(uploadFiles, getBaseName, PATHS.UPLOADS)
ImageMapOf(uploadListing, uploads) ==
  LET uploadFiles == getFilesByExtension(uploadListing, IMAGE_EXTENSIONS)
  IN createFileMap(uploadFiles, [f \in Range(uploadFiles) |-> getBaseName(f)], uploads)

\* createFileMap(outputFiles, (file) => path.parse(file).name, PATHS.OUTPUTS)
AudioMapOf(outputListing, outputs) ==
  LET outputFiles == getFilesByExtension(outputListing, AUDIO_EXTENSIONS)
  IN createFileMap(outputFiles, [f \in Range(outputFiles) |-> parseName(f)], outputs)

\* matchFiles() on the listings readdirSync returns and the directories' files.
matchFiles(uploadListing, outputListing, uploads, outputs, texts) ==
  sort(MatchedBeforeSort(ImageMapOf(uploadListing, uploads),
                         AudioMapOf(outputListing, outputs), texts),
       uploads)

\* ------------------------------------------------------------ state
VARIABLES
  uploads,    \* PATHS.UPLOADS: image filename -> file entry
  outputs,    \* PATHS.OUTPUTS: audio filename -> file entry
  texts,      \* PATHS.TEXTS: prompt filename -> file entry
  clock,      \* the modification time of the latest write; every write is later
  req,        \* the POST /api/generate requests: position, upload, response
  files,      \* the answer of the last GET /api/files, while no POST step followed it
  lastOk,     \* the request answered success:true by the last POST step, else 0
  failedFor,  \* image filenames whose last finished generation failed before the audio write
  input,      \* argument of the function applied in SpecBase, SpecMap, SpecMatch
  output,     \* its result
  op          \* the function applied, "none" before

vars == <<uploads, outputs, texts, clock, req, files, lastOk, failedFor, input, output, op>>

serverVars == <<uploads, outputs, texts, clock, req, files, lastOk, failedFor>>

fnVars == <<input, output, op>>

\* All duplicate-free sequences over the set S: the orders readdirSync can
\* list any part of S in.
Lists(S) ==
  UNION { { l \in [1..n -> S] : \A i, j \in 1..n : l[i] = l[j] => i = j } :
          n \in 0..Cardinality(S) }

\* The orders readdirSync can list exactly the files of S in.
Perms(S) == { l \in Lists(S) : Len(l) = Cardinality(S) }

\* ------------------------------------------------------------ requests
\* Filenames a client uploads (multipart originalname).
OriginalNames ==
  { <<"a", ".", "j", "p", "g">>,
    <<"a", "-", "1", ".", "J", "P", "G">>,
    <<"b", ".", "t", "x", "t">> }

\* Content types a client declares for the upload.
MimeTypes ==
  { <<"i", "m", "a", "g", "e", "/", "p", "n", "g">>,
    <<"t", "e", "x", "t", "/", "p", "l", "a", "i", "n">> }

\* Texts the analysis model answers with (parts[0].text).
RawTexts == { <<>>, <<" ", "p", " ">> }

\* An external call that throws or answers without a usable payload.
Throws == <<"(throws)">>

\* Requests are numbered in the order they arrive.
Requests == 1..MaxReq

Arrives(r) == req[r].pc = "new" /\ \A q \in 1..(r - 1) : req[q].pc # "new"

\* storage.filename: `${path.parse(originalname).name}${path.extname(originalname)}`
StorageFilename_NoExt(originalname) == parseName(originalname)

StorageFilename(originalname) == parseName(originalname) \o extname(originalname)

\* path.parse(req.file.originalname).name
imageBaseName(originalname) == parseName(originalname)

\* `${imageBaseName}.wav`
outputFilename(originalname) == imageBaseName(originalname) \o WavExt

\* `${imageBaseName}.txt`
textFilename(originalname) == imageBaseName(originalname) \o TxtExt

fileFilter_Either(originalname, mimetype) ==
  LET ext == toLowerCase(extname(originalname))
      isValidExtension == ext \in IMAGE_EXTENSIONS
      isValidMimeType == startsWith(mimetype, <<"i", "m", "a", "g", "e", "/">>)
  IN isValidExtension \/ isValidMimeType

\* fileFilter: TRUE for cb(null, true), FALSE for cb(new Error(...)).
fileFilter(originalname, mimetype) ==
  LET ext == toLowerCase(extname(originalname))
      isValidExtension == ext \in IMAGE_EXTENSIONS
      isValidMimeType == startsWith(mimetype, <<"i", "m", "a", "g", "e", "/">>)
  IN isValidExtension /\ isValidMimeType

NoResponse ==
  [status |-> 0, type |-> "none", imageUrl |-> <<>>, prompt |-> <<>>, audioUrl |-> <<>>]

CatchResponse_Ok ==
  [status |-> 200, type |-> "success", imageUrl |-> <<>>, prompt |-> <<>>, audioUrl |-> <<>>]

\* catch (error) { res.status(500).json({ error, details }) }
CatchResponse ==
  [status |-> 500, type |-> "error", imageUrl |-> <<>>, prompt |-> <<>>, audioUrl |-> <<>>]

\* res.status(400).json({ error: 'No image file provided' })
NoFileResponse ==
  [status |-> 400, type |-> "error400", imageUrl |-> <<>>, prompt |-> <<>>, audioUrl |-> <<>>]

\* An error the upload middleware passes to next(): the route handler is
\* skipped and, no error middleware being registered, the framework's
\* default error handler answers 500 with an HTML page.
DefaultErrorResponse ==
  [status |-> 500, type |-> "html", imageUrl |-> <<>>, prompt |-> <<>>, audioUrl |-> <<>>]

\* res.json({ success: true, imageUrl, prompt, audioUrl, filename })
SuccessResponse(originalname, musicPrompt) ==
  [status |-> 200, type |-> "success",
   imageUrl |-> UploadsUrl \o StorageFilename(originalname),
   prompt |-> musicPrompt,
   audioUrl |-> OutputsUrl \o outputFilename(originalname)]

NewRequest ==
  [pc |-> "new", originalname |-> <<>>, mimetype |-> <<>>, prompt |-> <<>>,
   calls |-> {}, failed |-> "none", res |-> NoResponse]

NotListed == [fresh |-> FALSE, list |-> <<>>]

\* Names a file of uploads/ can have: the uploads' names, with or without
\* their extension.
ImageFiles == OriginalNames \cup { parseName(o) : o \in OriginalNames }

AudioFiles == { outputFilename(o) : o \in OriginalNames }

TextFiles == { textFilename(o) : o \in OriginalNames }

Init ==
  /\ uploads = [f \in ImageFiles |-> NoFile]
  /\ outputs = [f \in AudioFiles |-> NoFile]
  /\ texts = [f \in TextFiles |-> NoFile]
  /\ clock = 0
  /\ req = [r \in Requests |-> NewRequest]
  /\ files = NotListed
  /\ lastOk = 0
  /\ failedFor = {}
  /\ input = <<>>
  /\ output = <<>>
  /\ op = "none"

\* POST /api/generate without the multipart field `image`: 400.
PostNoFile(r) ==
  /\ Arrives(r)
  /\ req' = [req EXCEPT ![r].pc = "done", ![r].res = NoFileResponse]
  /\ files' = NotListed
  /\ lastOk' = 0
  /\ UNCHANGED <<uploads, outputs, texts, clock, failedFor, fnVars>>

\* POST /api/generate with a file: upload.single('image') runs fileFilter,
\* stores the file under storage.filename within limits.fileSize, and the
\* route handler starts the analysis call.
Post(r) ==
  /\ Arrives(r)
  /\ \E originalname \in OriginalNames, mimetype \in MimeTypes, tooLarge \in BOOLEAN :
       IF ~fileFilter(originalname, mimetype)
       THEN /\ req' = [req EXCEPT ![r].pc = "done",
                                  ![r].originalname = originalname,
                                  ![r].mimetype = mimetype,
                                  ![r].failed = "filter",
                                  ![r].res = DefaultErrorResponse]
            /\ UNCHANGED <<uploads, clock>>
       ELSE IF tooLarge
       THEN \* the partial file is removed again
            /\ req' = [req EXCEPT ![r].pc = "done",
                                  ![r].originalname = originalname,
                                  ![r].mimetype = mimetype,
                                  ![r].failed = "size",
                                  ![r].res = DefaultErrorResponse]
            /\ uploads' = [uploads EXCEPT ![StorageFilename(originalname)] = NoFile]
            /\ UNCHANGED clock
       ELSE /\ req' = [req EXCEPT ![r].pc = "analysing",
                                  ![r].originalname = originalname,
                                  ![r].mimetype = mimetype,
                                  ![r].calls = {"analysis"}]
            /\ uploads' = [uploads EXCEPT ![StorageFilename(originalname)] =
                                             File(clock + 1, r, <<>>)]
            /\ clock' = clock + 1
  /\ files' = NotListed
  /\ lastOk' = 0
  /\ UNCHANGED <<outputs, texts, failedFor, fnVars>>

\* generateMusicPromptFromImage settles: it throws, or returns the trimmed
\* text unless that is empty; the handler then calls generateMusicWithLyria.
AnalysisDone(r) ==
  /\ req[r].pc = "analysing"
  /\ \E answer \in RawTexts \cup {Throws} :
       LET musicPrompt == IF answer = Throws THEN <<>> ELSE trim(answer)
       IN IF musicPrompt = <<>>
          THEN /\ req' = [req EXCEPT ![r].pc = "done",
                                     ![r].failed = "analysis",
                                     ![r].res = CatchResponse]
               /\ failedFor' = failedFor \cup {StorageFilename(req[r].originalname)}
          ELSE /\ req' = [req EXCEPT ![r].pc = "synthesising",
                                     ![r].prompt = musicPrompt,
                                     ![r].calls = @ \cup {"synthesis"}]
               /\ UNCHANGED failedFor
  /\ files' = NotListed
  /\ lastOk' = 0
  /\ UNCHANGED <<uploads, outputs, texts, clock, fnVars>>

\* The file a writeFileSync leaves behind: the new content, or when it
\* throws either the old file (open failed) or a truncated one.
Written(old, result, r, content) ==
  CASE result = "ok" -> File(clock + 1, r, content)
    [] result = "openFailed" -> old
    [] result = "writeFailed" -> File(clock + 1, r, <<>>)

WriteResults == {"ok", "openFailed", "writeFailed"}

\* The bytes of a complete audio file.
Audio == <<"R", "I", "F", "F">>

\* generateMusicWithLyria settles: it throws before writing, or writes the
\* audio file (the write can throw); then saveTextFile writes the prompt and
\* swallows a failure, and the handler answers success.
SynthesisDone(r) ==
  /\ req[r].pc = "synthesising"
  /\ LET o == req[r].originalname
     IN \E answer \in {Audio, Throws}, audioWrite \in WriteResults, textWrite \in WriteResults :
          IF answer = Throws
          THEN /\ audioWrite = "ok" /\ textWrite = "ok"
               /\ req' = [req EXCEPT ![r].pc = "done",
                                     ![r].failed = "synthesis",
                                     ![r].res = CatchResponse]
               /\ failedFor' = failedFor \cup {StorageFilename(o)}
               /\ lastOk' = 0
               /\ UNCHANGED <<outputs, texts, clock>>
          ELSE IF audioWrite # "ok"
          THEN /\ textWrite = "ok"
               /\ outputs' = [outputs EXCEPT ![outputFilename(o)] =
                                Written(@, audioWrite, r, answer)]
               /\ req' = [req EXCEPT ![r].pc = "done",
                                     ![r].failed = "audioWrite",
                                     ![r].res = CatchResponse]
               /\ clock' = clock + 1
               /\ lastOk' = 0
               /\ UNCHANGED <<texts, failedFor>>
          ELSE /\ outputs' = [outputs EXCEPT ![outputFilename(o)] =
                                Written(@, "ok", r, answer)]
               /\ texts' = [texts EXCEPT ![textFilename(o)] =
                                Written(@, textWrite, r, req[r].prompt)]
               /\ req' = [req EXCEPT ![r].pc = "done",
                                     ![r].failed = IF textWrite = "ok" THEN "none"
                                                   ELSE "textWrite",
                                     ![r].res = SuccessResponse(o, req[r].prompt)]
               /\ failedFor' = failedFor \ {StorageFilename(o)}
               /\ clock' = clock + 1
               /\ lastOk' = r
  /\ files' = NotListed
  /\ UNCHANGED <<uploads, fnVars>>

\* The names readdirSync finds in a directory.
Present(dir) == { f \in DOMAIN dir : dir[f].exists }

\* GET /api/files: res.json({ files: matchFiles() }).
GetFiles ==
  /\ \E uploadListing \in Perms(Present(uploads)), outputListing \in Perms(Present(outputs)) :
       files' = [fresh |-> TRUE,
                 list |-> matchFiles(uploadListing, outputListing, uploads, outputs, texts)]
  /\ UNCHANGED <<uploads, outputs, texts, clock, req, lastOk, failedFor, fnVars>>

Next ==
  \/ \E r \in Requests : PostNoFile(r)
  \/ \E r \in Requests : Post(r)
  \/ \E r \in Requests : AnalysisDone(r)
  \/ \E r \in Requests : SynthesisDone(r)
  \/ GetFiles

Spec == Init /\ [][Next]_vars

\* ------------------------------------------------------------ getBaseName alone
Alphabet == {"a", "-", "1", "."}

\* Every filename of at most MaxLen characters over the alphabet.
Filenames == UNION { [1..n -> Alphabet] : n \in 1..MaxLen }

ServerIdle ==
  /\ uploads = [f \in ImageFiles |-> NoFile]
  /\ outputs = [f \in AudioFiles |-> NoFile]
  /\ texts = [f \in TextFiles |-> NoFile]
  /\ clock = 0
  /\ req = [r \in Requests |-> NewRequest]
  /\ files = NotListed
  /\ lastOk = 0
  /\ failedFor = {}

InitBase ==
  /\ ServerIdle
  /\ input \in Filenames
  /\ output = <<>>
  /\ op = "none"

ApplyGetBaseName ==
  /\ op = "none"
  /\ output' = getBaseName(input)
  /\ op' = "getBaseName"
  /\ UNCHANGED <<input, serverVars>>

NextBase == ApplyGetBaseName

SpecBase == InitBase /\ [][NextBase]_vars

\* ------------------------------------------------------------ createFileMap alone
\* Files of one directory; under getBaseName the first three share the name
\* "a", under path.parse(file).name the second and third share "a-1".
MapNames ==
  { <<"a", ".", "j", "p", "g">>,
    <<"a", "-", "1", ".", "j", "p", "g">>,
    <<"a", "-", "1", ".", "p", "n", "g">>,
    <<"b", ".", "j", "p", "g">> }

\* What stat finds for a listed file: nothing (it vanished after readdir),
\* or a file with some modification time.
StatEntries == {NoFile} \cup { File(m, 0, <<>>) : m \in 0..MaxMtime }

Resolve(resolver, file) ==
  IF resolver = "image" THEN getBaseName(file) ELSE parseName(file)

InitMap ==
  /\ ServerIdle
  /\ \E l \in Lists(MapNames), k \in {"image", "audio"} :
       \E d \in [Range(l) -> StatEntries] :
         input = [files |-> l, resolver |-> k, dir |-> d]
  /\ output = <<>>
  /\ op = "none"

ApplyCreateFileMap ==
  /\ op = "none"
  /\ output' = createFileMap(input.files,
                             [f \in Range(input.files) |-> Resolve(input.resolver, f)],
                             input.dir)
  /\ op' = "createFileMap"
  /\ UNCHANGED <<input, serverVars>>

NextMap == ApplyCreateFileMap

SpecMap == InitMap /\ [][NextMap]_vars

\* ------------------------------------------------------------ matchFiles alone
\* uploads/: "a.jpg" and "a-1.png" share the name "a".
MatchUploads ==
  { <<"a", ".", "j", "p", "g">>,
    <<"a", "-", "1", ".", "p", "n", "g">>,
    <<"b", ".", "J", "P", "G">>,
    <<"c", ".", "g", "i", "f">> }

\* outputs/ in the order readdir lists it; "c.mp3" is no audio file and is
\* always there.
MatchOutputs ==
  << <<"a", ".", "w", "a", "v">>,
     <<"b", ".", "W", "A", "V">>,
     <<"c", ".", "w", "a", "v">>,
     <<"c", ".", "m", "p", "3">> >>

\* texts/a.txt: missing, a prompt with white space around it, or unreadable.
MatchTexts ==
  { NoFile, File(0, 0, <<" ", "p", " ">>), File(0, 0, Unreadable) }

ATxt == <<"a", ".", "t", "x", "t">>

CMp3 == <<"c", ".", "m", "p", "3">>

\* What stat finds for a listed upload: nothing, or a file written at some
\* time after the epoch.
MatchStatEntries == {NoFile} \cup { File(m, 0, <<>>) : m \in 1..MaxMtime }

SubListing(all, keep) == SelectSeq(all, LAMBDA f : f \in keep)

InitMatch ==
  /\ ServerIdle
  /\ \E ul \in Lists(MatchUploads), t \in MatchTexts,
        oset \in { s \in SUBSET Range(MatchOutputs) : CMp3 \in s } :
       \E ud \in [Range(ul) -> MatchStatEntries] :
         input = [uploadListing |-> ul,
                  outputListing |-> SubListing(MatchOutputs, oset),
                  uploads |-> ud,
                  outputs |-> [f \in oset |-> File(0, 0, Audio)],
                  texts |-> [f \in {ATxt} |-> t]]
  /\ output = <<>>
  /\ op = "none"

ApplyMatchFiles ==
  /\ op = "none"
  /\ output' = matchFiles(input.uploadListing, input.outputListing,
                          input.uploads, input.outputs, input.texts)
  /\ op' = "matchFiles"
  /\ UNCHANGED <<input, serverVars>>

NextMatch == ApplyMatchFiles

SpecMatch == InitMatch /\ [][NextMatch]_vars

\* ============================================================ properties

\* The stem has a dash at position k followed by a non-empty run of digits up
\* to its end (so k is the position of the last dash).
EndsInDashDigits(stem, k) ==
  /\ stem[k] = "-"
  /\ k < Len(stem)
  /\ \A j \in (k + 1)..Len(stem) : stem[j] \in Digits

\* C5 as stated: getBaseName returns the stem without its trailing
\* '-<digits>' segment whenever the part after the last dash is a non-empty
\* run of digits, wherever the last dash is, also at the start of the stem;
\* otherwise it returns the stem unchanged.
C5_AnyDashPosition ==
  op = "getBaseName" =>
    LET stem == parseName(input)
    IN /\ \A k \in 1..Len(stem) :
            EndsInDashDigits(stem, k) => output = SubSeq(stem, 1, k - 1)
       /\ (~\E k \in 1..Len(stem) : EndsInDashDigits(stem, k)) => output = stem

\* C5 amended: getBaseName strips the trailing '-<digits>' segment only when
\* the last dash is not the first character of the stem; a stem that begins
\* with its only dash, such as "-1", is returned unchanged, as is every stem
\* without a trailing '-<digits>' segment.
C5_DashNotFirst ==
  op = "getBaseName" =>
    LET stem == parseName(input)
    IN /\ \A k \in 2..Len(stem) :
            EndsInDashDigits(stem, k) => output = SubSeq(stem, 1, k - 1)
       /\ (~\E k \in 2..Len(stem) : EndsInDashDigits(stem, k)) => output = stem

\* getBaseName("a-1.a") = "a": a timestamp suffix after a dash inside the stem.
C5_Witness ==
  /\ op = "getBaseName"
  /\ input = <<"a", "-", "1", ".", "a">>
  /\ output = <<"a">>

\* C6: of two files of the list with the same LogicalName and modification
\* times t1 < t2 (a missing file counting as 0), the map never holds the one
\* with t1; when they are the only files of that name it holds the one with
\* t2, in either order of the list.
C6_NewestWins ==
  op = "createFileMap" =>
    \A i, j \in 1..Len(input.files) :
      LET f1 == input.files[i]
          f2 == input.files[j]
          name == Resolve(input.resolver, f1)
          group == { f \in Range(input.files) : Resolve(input.resolver, f) = name }
      IN (Resolve(input.resolver, f2) = name
          /\ mtimeOrZero(input.dir, f1) < mtimeOrZero(input.dir, f2))
         => /\ MapGet(output, name) # f1
            /\ group = {f1, f2} => MapGet(output, name) = f2

\* The older of exactly two files named "a" is listed first and the newer one
\* has replaced it in the map.
C6_Witness ==
  /\ op = "createFileMap"
  /\ input.resolver = "image"
  /\ input.files = << <<"a", ".", "j", "p", "g">>, <<"a", "-", "1", ".", "j", "p", "g">> >>
  /\ mtimeOrZero(input.dir, input.files[1]) < mtimeOrZero(input.dir, input.files[2])
  /\ MapGet(output, <<"a">>) = input.files[2]

\* LogicalNames of the image files and of the audio files of the listings.
ImageKeys ==
  { getBaseName(f) :
      f \in { g \in Range(input.uploadListing) : toLowerCase(extname(g)) \in IMAGE_EXTENSIONS } }

AudioKeys ==
  { parseName(f) :
      f \in { g \in Range(input.outputListing) : toLowerCase(extname(g)) \in AUDIO_EXTENSIONS } }

RecordsNamed(name) == { i \in 1..Len(output) : output[i].name = name }

WithoutPrompt(records) ==
  [i \in 1..Len(records) |->
     [imageUrl |-> records[i].imageUrl, audioUrl |-> records[i].audioUrl,
      name |-> records[i].name]]

\* C7: matchFiles emits exactly one record for a LogicalName that is a key of
\* both the image map and the audio map and none for any other name; the
\* prompt file decides only the prompt field (absent without the file), never
\* which records are emitted.
C7_FilterAfterUnion ==
  op = "matchFiles" =>
    /\ \A name \in ImageKeys \cup AudioKeys \cup { output[i].name : i \in 1..Len(output) } :
         Cardinality(RecordsNamed(name)) =
           IF name \in ImageKeys /\ name \in AudioKeys THEN 1 ELSE 0
    /\ \A i \in 1..Len(output) :
         ~existsSync(input.texts, output[i].name \o TxtExt) => output[i].prompt = Undefined
    /\ WithoutPrompt(output) =
         WithoutPrompt(matchFiles(input.uploadListing, input.outputListing, input.uploads,
                                  input.outputs, [f \in DOMAIN input.texts |-> NoFile]))

\* "a" has an image and an audio file but no prompt file and is emitted
\* without a prompt; "b" has only an image and is not emitted.
C7_Witness ==
  /\ op = "matchFiles"
  /\ ~existsSync(input.texts, ATxt)
  /\ \E i \in 1..Len(output) : output[i].name = <<"a">> /\ output[i].prompt = Undefined
  /\ <<"b">> \in ImageKeys \ AudioKeys
  /\ RecordsNamed(<<"b">>) = {}

ImageMtime(record) == mtimeOrZero(input.uploads, UrlFile(record.imageUrl))

\* C9: the records matchFiles returns are in non-increasing order of the
\* modification time of their image file (a missing image file counting as 0).
C9_NewestFirst ==
  op = "matchFiles" =>
    \A i, j \in 1..Len(output) : i < j => ImageMtime(output[i]) >= ImageMtime(output[j])

\* Three records whose images were listed oldest first come out newest first.
C9_Witness ==
  /\ op = "matchFiles"
  /\ Len(output) = 3
  /\ ImageMtime(output[1]) > ImageMtime(output[2])
  /\ ImageMtime(output[2]) > ImageMtime(output[3])
  /\ [i \in 1..3 |-> UrlFile(output[i].imageUrl)] =
       [i \in 1..3 |-> input.uploadListing[4 - i]]

\* No write of an audio or prompt file has failed so far.
AllWritesSucceeded ==
  \A r \in Requests : req[r].failed \notin {"audioWrite", "textWrite"}

\* C1 as stated, where every disk write succeeded: a GET /api/files that
\* follows a success:true answer with no other request in between lists a
\* record with that answer's audioUrl and prompt.
C1_GeneratedItemListed ==
  (files.fresh /\ lastOk # 0 /\ AllWritesSucceeded) =>
    \E i \in 1..Len(files.list) :
      /\ files.list[i].audioUrl = req[lastOk].res.audioUrl
      /\ files.list[i].prompt = req[lastOk].res.prompt

\* C2 as stated, where every disk write succeeded: while the last finished
\* generation of an image failed in analysis or synthesis, GET /api/files
\* lists no record with that imageUrl.
C2_FailedImageNotListed ==
  (files.fresh /\ AllWritesSucceeded) =>
    \A i \in 1..Len(files.list) : UrlFile(files.list[i].imageUrl) \notin failedFor

\* C3 as stated: every failure a POST /api/generate meets is answered with
\* status 500 and the JSON body {error, details}.
C3_EveryFailureJson500 ==
  \A r \in Requests :
    req[r].failed # "none" => req[r].res.status = 500 /\ req[r].res.type = "error"

\* C3 amended: an analysis failure, a synthesis failure or a failed write of
\* the audio file is answered with status 500 and the JSON body {error,
\* details}; a failed write of the prompt file is swallowed and the request is
\* answered 200 success:true; an upload the filter or the size limit rejects
\* never enters the route handler and is answered 500 by the framework's
\* default error handler, without the {error, details} body.
C3_HandlerFailuresJson500 ==
  \A r \in Requests :
    /\ req[r].failed \in {"analysis", "synthesis", "audioWrite"}
         => req[r].res.status = 500 /\ req[r].res.type = "error"
    /\ req[r].failed = "textWrite"
         => req[r].res.status = 200 /\ req[r].res.type = "success"
    /\ req[r].failed \in {"filter", "size"}
         => req[r].res.status = 500 /\ req[r].res.type = "html"

\* One request failed writing the audio file, another writing the prompt file.
C3_Witness ==
  \E r, q \in Requests : req[r].failed = "audioWrite" /\ req[q].failed = "textWrite"

FilesKept(dir, dirNext) == \A f \in DOMAIN dir : dir[f].exists => dirNext[f] = dir[f]

\* C4 as stated: no request changes or deletes a file that exists.
C4_FilesNeverChange ==
  [][ /\ FilesKept(uploads, uploads')
      /\ FilesKept(outputs, outputs')
      /\ FilesKept(texts, texts') ]_vars

\* C4 amended: GET /api/files changes no file, and a POST /api/generate
\* changes, creates or deletes only the files named after its own upload: the
\* image <originalname>, the audio <stem>.wav and the prompt <stem>.txt.  A
\* later upload of the same name overwrites them in place.
C4_OnlyOwnFilesChange ==
  [][ \E r \in Requests :
        LET o == req'[r].originalname
        IN /\ \A f \in DOMAIN uploads : uploads'[f] # uploads[f] => (req'[r] # req[r] /\ f = o)
           /\ \A f \in DOMAIN outputs :
                outputs'[f] # outputs[f] => (req'[r] # req[r] /\ f = parseName(o) \o WavExt)
           /\ \A f \in DOMAIN texts :
                texts'[f] # texts[f] => (req'[r] # req[r] /\ f = parseName(o) \o TxtExt) ]_vars

\* Request 2 uploaded the name request 1 had uploaded and overwrote the
\* image, the audio and the prompt file request 1 had written.
C4_Witness ==
  /\ req[1].res.type = "success"
  /\ req[2].res.type = "success"
  /\ req[1].originalname = req[2].originalname
  /\ uploads[req[1].originalname].by = 2
  /\ outputs[outputFilename(req[1].originalname)].by = 2
  /\ texts[textFilename(req[1].originalname)].by = 2

WroteAFile(r) ==
  \/ \E f \in DOMAIN uploads : uploads[f].exists /\ uploads[f].by = r
  \/ \E f \in DOMAIN outputs : outputs[f].exists /\ outputs[f].by = r
  \/ \E f \in DOMAIN texts : texts[f].exists /\ texts[f].by = r

NotAnImage(originalname, mimetype) ==
  \/ toLowerCase(extname(originalname)) \notin IMAGE_EXTENSIONS
  \/ ~startsWith(mimetype, <<"i", "m", "a", "g", "e", "/">>)

\* C8: a request whose upload has an extension outside the image extensions
\* or a MIME type not starting with 'image/' never reaches the analysis or
\* the synthesis call and writes no file.
C8_RejectedBeforeAnyCall ==
  \A r \in Requests :
    (req[r].originalname # <<>> /\ NotAnImage(req[r].originalname, req[r].mimetype))
      => req[r].calls = {} /\ ~WroteAFile(r)

\* "a.jpg" declared as text/plain was rejected while another request went
\* through both calls.
C8_Witness ==
  \E r, q \in Requests :
    /\ req[r].pc = "done"
    /\ req[r].originalname = <<"a", ".", "j", "p", "g">>
    /\ ~startsWith(req[r].mimetype, <<"i", "m", "a", "g", "e", "/">>)
    /\ req[q].calls = {"analysis", "synthesis"}

\* C10 as stated, where every disk write succeeded: every record GET
\* /api/files returns pairs an image with the audio file and the prompt text
\* one and the same request generated from it.
C10_RecordFromOneRequest ==
  (files.fresh /\ AllWritesSucceeded) =>
    \A i \in 1..Len(files.list) :
      LET image == Lookup(uploads, UrlFile(files.list[i].imageUrl))
          audio == Lookup(outputs, UrlFile(files.list[i].audioUrl))
          text == Lookup(texts, files.list[i].name \o TxtExt)
      IN /\ audio.by = image.by
         /\ audio.content = Audio
         /\ files.list[i].prompt # Undefined => text.by = image.by

====
